---- MODULE Spec2Model ----
(***************************************************************************)
(* A model of note_to_quote_bot/main.py: the poll loop of run_bot, the     *)
(* per-event pipeline handle_event with its in-memory dedup table and its  *)
(* reply files, and the helpers they call.  External systems (the relays,  *)
(* the rendering website, the image host, the file system, the clock) are  *)
(* inputs drawn with \E.                                                    *)
(***************************************************************************)
EXTENDS Integers, Sequences, FiniteSets, TLC

\* ------------------------------------------------------------------ bounds
\* The clock stops the model once it passes MaxTime (seconds).
MaxTime == 221
\* The longest batch one fetch returns.
MaxBatch == 2
\* The most seconds that pass between signing the reply and sending it.
MaxElapsed == 1

\* ------------------------------------------------------- program constants
\* run_bot: current_time - (2 * 60)
POLL_WINDOW == 120
\* run_bot: asyncio.sleep(10), in both branches of the loop
SLEEP_SECS == 10

\* ------------------------------------------------------------- the network
BotPubkey == "bot"

\* A relay URL is the sequence of its parts, so that str.replace can be modelled.
WssUrl(host) == <<"wss://", host>>

\* The events that mention the bot, as the relays hold them.  etags are the
\* ids of the event's "e" tags, in order; rtags are its "r" tags without the
\* leading "r": <<url>> or <<url, marker>>.
NoteRoot == [id |-> "e1", author |-> "alice", content |-> "Hello world",
             etags |-> <<>>, rtags |-> <<>>, created_at |-> 95]
NoteReply == [id |-> "e2", author |-> "bob", content |-> "please quote",
              etags |-> <<"p1", "p2">>,
              rtags |-> << <<WssUrl("relay.bob.example"), "write">>,
                           <<WssUrl("inbox.bob.example"), "read">>,
                           <<WssUrl("nos.lol")>>,
                           <<WssUrl("both.bob.example"), "read+write">> >>,
              created_at |-> 118]
NoteOwn == [id |-> "e3", author |-> BotPubkey, content |-> "from the bot",
            etags |-> <<"e1">>, rtags |-> <<>>, created_at |-> 119]

\* A root note that mentions the bot through its p tag only: no text.
NoteEmpty == [id |-> "e4", author |-> "carol", content |-> "",
              etags |-> <<>>, rtags |-> <<>>, created_at |-> 117]
\* post_test.py's reply to its original note: one e tag, the note itself.
NoteTest == [id |-> "e5", author |-> "dave",
             content |-> "Hello @bot! Please quote the note above.",
             etags |-> <<"p1">>, rtags |-> <<>>, created_at |-> 119]

Events == {NoteRoot, NoteReply, NoteOwn, NoteEmpty, NoteTest}

\* The sets of events one run is about.
Worlds == {{NoteRoot, NoteReply, NoteOwn}, {NoteEmpty, NoteTest, NoteOwn}}

\* The notes an "e" tag may point to, with their content, when a relay has them.
ParentContent == [p \in {"p1", "p2"} |->
                    IF p = "p1" THEN "This is a test note that will be quoted."
                    ELSE "Another note"]
ParentIds == DOMAIN ParentContent

\* The URL the image host answers with.
ImageUrls == {"https://i.ibb.co/quote.png"}

\* The time the bot is first started at.
StartTime == 200

\* ------------------------------------------------------------- conversions
\* EventId.to_bech32 / to_hex, PublicKey.to_bech32
ToBech32(hex) == "note1" \o hex
ToHex(hex) == hex
PubToBech32(hex) == "npub1" \o hex

None == "None"

VARIABLES
  now,        \* time.time(), in seconds
  cfg,        \* the environment: which credentials are set
  world,      \* the events mentioning the bot that the relays hold
  pc,         \* where run_bot is
  batch,      \* the events of the current fetch not yet handled
  processed,  \* processed_events: event id (bech32) -> timestamp
  files,      \* events/reply_to_<id>.json: id -> <<>> (empty) or <<signed event>>
  net,        \* every event submitted with send_event_builder, in order
  call        \* what the last handle_event call did

vars == <<now, cfg, world, pc, batch, processed, files, net, call>>

NoEvent == [id |-> None, author |-> None, content |-> "", etags |-> <<>>,
            rtags |-> <<>>, created_at |-> 0]
NoRender == [text |-> None, event_id |-> None, relay_url |-> <<>>]
NoSigned == [content |-> None, reply_to |-> None, p |-> None, created_at |-> 0]
NoCall == [ev |-> NoEvent, parent_content |-> None, reply_content |-> None,
           rendered |-> NoRender, image |-> None, signed |-> NoSigned,
           did |-> <<>>, exit |-> "none",
           users |-> [write |-> <<>>, read |-> <<>>],
           client |-> [read |-> {}, write |-> {}]]

\* ---------------------------------------------------------------- helpers
Range(seq) == {seq[i] : i \in 1..Len(seq)}

\* The compiled-in relay lists
WRITE_RELAYS == <<WssUrl("strfry.felixzieger.de"), WssUrl("relay.damus.io"),
                  WssUrl("nos.lol"), WssUrl("nostr.mom")>>
READ_RELAYS == <<WssUrl("relay.nostr.band"), WssUrl("relay.nostr.bg"),
                 WssUrl("nostr.bitcoiner.social"), WssUrl("relay.snort.social"),
                 WssUrl("purplepag.es")>>

NoRelays == [write |-> <<>>, read |-> <<>>]

\* Mutant: a list instead of a set, every URL is appended.
SetAddAlways(acc, url) == Append(acc, url)

\* set.add: a Python set, kept as the sequence of its distinct members (the
\* order list(set) gives is not fixed by the language; nothing here reads it)
SetAdd(acc, url) == IF url \in Range(acc) THEN acc ELSE Append(acc, url)

\* set.update(list)
RECURSIVE SetUpdate(_, _)
SetUpdate(acc, list) ==
  IF list = <<>> THEN acc ELSE SetUpdate(SetAdd(acc, Head(list)), Tail(list))

\* Mutant: the two markers are mixed up.
AddRelayTagSwapped(relays, tag) ==
  IF Len(tag) > 1 /\ tag[2] = "write"
  THEN [relays EXCEPT !.read = SetAdd(@, tag[1])]
  ELSE IF Len(tag) > 1 /\ tag[2] = "read"
  THEN [relays EXCEPT !.write = SetAdd(@, tag[1])]
  ELSE [write |-> SetAdd(relays.write, tag[1]),
        read |-> SetAdd(relays.read, tag[1])]

\* get_user_relays: the body of the loop for one r tag (tag is the tag
\* without its leading "r", so len(tag.as_vec()) > 2 is Len(tag) > 1)
AddRelayTag(relays, tag) ==
  IF Len(tag) > 1
  THEN IF tag[2] = "write"
       THEN [relays EXCEPT !.write = SetAdd(@, tag[1])]
       ELSE IF tag[2] = "read"
       THEN [relays EXCEPT !.read = SetAdd(@, tag[1])]
       ELSE [write |-> SetAdd(relays.write, tag[1]),
             read |-> SetAdd(relays.read, tag[1])]
  ELSE [write |-> SetAdd(relays.write, tag[1]),
        read |-> SetAdd(relays.read, tag[1])]

RECURSIVE ScanRTags(_, _)
ScanRTags(rtags, relays) ==
  IF rtags = <<>> THEN relays
  ELSE ScanRTags(Tail(rtags), AddRelayTag(relays, Head(rtags)))

\* get_user_relays
GetUserRelays(ev) ==
  ScanRTags(ev.rtags, [write |-> SetUpdate(<<>>, WRITE_RELAYS),
                       read |-> SetUpdate(<<>>, READ_RELAYS)])

\* Mutant: the requester's write relays are written to, the read relays read.
ReplyClientNotInverted(users) ==
  [read |-> Range(users.read), write |-> Range(users.write)]

\* handle_event: the relays of the per-event client: add_read_relay for each
\* of the requester's write relays, add_write_relay for each read relay
ReplyClient(users) ==
  [read |-> Range(users.write), write |-> Range(users.read)]

\* Mutant: the dedup check never finds a record.
AlreadyProcessedNever(event_id) == FALSE

\* handle_event: event_id in processed_events
AlreadyProcessed(event_id) == event_id \in DOMAIN processed

\* Mutant: the author check never matches.
IsOwnEventNever(ev) == FALSE

\* handle_event: event.author().to_bech32() == keys.public_key().to_bech32()
IsOwnEvent(ev) == PubToBech32(ev.author) = PubToBech32(BotPubkey)

\* Mutant: the saved-reply check never finds the file.
HasSavedReplyNever(event_id) == FALSE

\* handle_event: event_file.exists()
HasSavedReply(event_id) == event_id \in DOMAIN files

\* Mutant: the record is not stored.
MarkProcessedDropped(event_id, t) == processed

\* processed_events[event_id] = time.time()
MarkProcessed(event_id, t) ==
  [k \in DOMAIN processed \cup {event_id} |->
     IF k = event_id THEN t ELSE processed[k]]

\* Mutant: the reply file is never written.
WriteFileSkipped(event_id, data) == files

\* open(event_file, "w") creates or truncates the file; json.dump fills it.
WriteFile(event_id, data) ==
  [k \in DOMAIN files \cup {event_id} |-> IF k = event_id THEN data ELSE files[k]]

\* get_parent_note: the for loop over the tags.  found is the set of ids the
\* relays answer for within the timeout.
RECURSIVE ScanETags(_, _)
ScanETags(etags, found) ==
  IF etags = <<>> THEN None
  ELSE IF Head(etags) \in found THEN ParentContent[Head(etags)]
  ELSE ScanETags(Tail(etags), found)

\* get_parent_note
GetParentNote(ev, found) ==
  IF ev.etags = <<>> THEN ev.content ELSE ScanETags(ev.etags, found)

\* Mutant: the missing parent is not noticed.
FalsyNever(text) == FALSE

\* handle_event: "if not parent_content"
Falsy(text) == text = None \/ text = ""

\* handle_event: the parent id handed to the renderer
ParentIdOf(ev) == IF ev.etags = <<>> THEN ToHex(ev.id) ELSE Head(ev.etags)

\* handle_event: the reply text with the image
ImageReply(ev, image_url) == PubToBech32(ev.author) \o " \n\n" \o image_url

\* Mutant: the apology does not mention the requester.
ApologyReplyBare(ev) == "Sorry, I couldn't find the event you want to quote"

\* handle_event: the reply text of the except branch
ApologyReply(ev) ==
  PubToBech32(ev.author) \o " Sorry, I couldn't find the event you want to quote"

\* Mutant: the reply is threaded under the quoted note.
SignReplyToParent(ev, content, t) ==
  [content |-> content, reply_to |-> ParentIdOf(ev), p |-> ev.author,
   created_at |-> t]

\* EventBuilder.text_note_reply(content, reply_to=event), signed at time t
SignReply(ev, content, t) ==
  [content |-> content, reply_to |-> ev.id, p |-> ev.author, created_at |-> t]

\* Mutant: the loop has no except branch.
CatchesNothing == FALSE

\* run_bot: "except Exception as e" around the body of the loop
CatchesException == TRUE

\* run_bot: the filter (text notes tagging the bot, since two minutes ago)
Since(t) == t - POLL_WINDOW
InWindow(t) == {e \in world : e.created_at >= Since(t)}

\* The orders a relay may return a set of events in, up to MaxBatch of them.
Batches(S) ==
  {b \in UNION {[1..n -> S] : n \in 0..MaxBatch} :
     \A i, j \in 1..Len(b) : i # j => b[i] # b[j]}

\* ------------------------------------------------------------------- Init
Init ==
  /\ now = StartTime
  /\ cfg \in [secret : BOOLEAN, imgbb : BOOLEAN]
  /\ world \in Worlds
  /\ pc = "start"
  /\ batch = <<>>
  /\ processed = <<>>
  /\ files = <<>>
  /\ net = <<>>
  /\ call = NoCall

\* Mutant: the exception is caught inside the for loop, which goes on.
AfterCallContinues(exit) ==
  /\ pc' = "dispatch"
  /\ batch' = Tail(batch)

\* Where control goes when handle_event ends: back to the for loop of run_bot
\* on a return, to the except branch on an exception.
AfterCall(exit) ==
  IF exit = "return" THEN /\ pc' = "dispatch"
                          /\ batch' = Tail(batch)
  ELSE /\ pc' = IF CatchesException THEN "sleep_err" ELSE "exited"
       /\ batch' = <<>>

\* The finally block of handle_event: disconnect and shutdown may raise too.
Finally(exit, cleanup) == IF cleanup = "raise" THEN "raise" ELSE exit

Outcomes == {"ok", "raise"}

\* ------------------------------------------------------------------ run_bot
\* run_bot up to the loop: the secret key, setup_metadata, the main client.
Start ==
  /\ pc = "start"
  /\ \E setup \in Outcomes :
       pc' = IF cfg.secret /\ setup = "ok" THEN "poll" ELSE "exited"
  /\ UNCHANGED <<now, cfg, world, batch, processed, files, net, call>>

\* One pass of "while True" up to the for loop: the window and the fetch.
Poll ==
  /\ pc = "poll"
  /\ \/ \E b \in Batches(InWindow(now)) :
          /\ batch' = b
          /\ pc' = "dispatch"
     \/ /\ batch' = <<>>
        /\ pc' = IF CatchesException THEN "sleep_err" ELSE "exited"
  /\ UNCHANGED <<now, cfg, world, processed, files, net, call>>

\* The for loop is over: asyncio.sleep(10), then the next pass.
Sleep ==
  /\ pc = "dispatch"
  /\ batch = <<>>
  /\ now + SLEEP_SECS <= MaxTime
  /\ now' = now + SLEEP_SECS
  /\ pc' = "poll"
  /\ UNCHANGED <<cfg, world, batch, processed, files, net, call>>

\* The except branch: print, asyncio.sleep(10), then the next pass.
SleepAfterError ==
  /\ pc = "sleep_err"
  /\ now + SLEEP_SECS <= MaxTime
  /\ now' = now + SLEEP_SECS
  /\ pc' = "poll"
  /\ UNCHANGED <<cfg, world, batch, processed, files, net, call>>

\* ------------------------------------------------------------- handle_event
\* The call for the next event of the batch, up to the try block: the two
\* short-circuits, then the per-event client and its connection.
Dispatch ==
  /\ pc = "dispatch"
  /\ batch # <<>>
  /\ LET ev == Head(batch)
         event_id == ToBech32(ev.id)
     IN IF AlreadyProcessed(event_id) \/ IsOwnEvent(ev)
        THEN /\ call' = [NoCall EXCEPT !.ev = ev, !.exit = "return"]
             /\ AfterCall("return")
        ELSE \E connect \in Outcomes :
               LET users == GetUserRelays(ev)
                   begun == [NoCall EXCEPT !.ev = ev, !.users = users,
                                           !.client = ReplyClient(users)]
               IN IF connect = "ok"
                  THEN /\ call' = [begun EXCEPT !.exit = "running"]
                       /\ pc' = "h_saved"
                       /\ batch' = batch
                  ELSE /\ call' = [begun EXCEPT !.exit = "raise"]
                       /\ AfterCall("raise")
  /\ UNCHANGED <<now, cfg, world, processed, files, net>>

\* "Check if we've already saved this event"
CheckSaved ==
  /\ pc = "h_saved"
  /\ LET event_id == ToBech32(call.ev.id)
     IN IF HasSavedReply(event_id)
        THEN \E cleanup \in Outcomes :
               /\ processed' = MarkProcessed(event_id, now)
               /\ call' = [call EXCEPT !.did = Append(@, "mark"),
                                       !.exit = Finally("return", cleanup)]
               /\ AfterCall(Finally("return", cleanup))
        ELSE /\ pc' = "h_resolve"
             /\ UNCHANGED <<batch, processed, call>>
  /\ UNCHANGED <<now, cfg, world, files, net>>

\* "Get the parent note (or this note if it's the root)"
Resolve ==
  /\ pc = "h_resolve"
  /\ LET ev == call.ev
         event_id == ToBech32(ev.id)
     IN \E found \in SUBSET ParentIds, lookup \in Outcomes, cleanup \in Outcomes :
          \* Without an e tag nothing is fetched, so nothing is found or raised.
          /\ ev.etags = <<>> => found = {} /\ lookup = "ok"
          /\ lookup = "raise" => found = {} /\ cleanup = "ok"
          /\ LET parent_content == GetParentNote(ev, found)
                 did == IF ev.etags = <<>> THEN call.did
                        ELSE Append(call.did, "lookup")
             IN IF lookup = "raise"
                THEN /\ call' = [call EXCEPT !.did = did, !.exit = "raise"]
                     /\ AfterCall("raise")
                     /\ UNCHANGED processed
                ELSE IF Falsy(parent_content)
                THEN /\ processed' = MarkProcessed(event_id, now)
                     /\ call' = [call EXCEPT !.did = Append(did, "mark"),
                                             !.parent_content = parent_content,
                                             !.exit = Finally("return", cleanup)]
                     /\ AfterCall(Finally("return", cleanup))
                ELSE /\ cleanup = "ok"
                     /\ call' = [call EXCEPT !.did = did,
                                             !.parent_content = parent_content]
                     /\ pc' = "h_render"
                     /\ UNCHANGED <<batch, processed>>
  /\ UNCHANGED <<now, cfg, world, files, net>>

\* get_parent_relay: the first r tag's URL, else the default relay
GetParentRelay(ev) ==
  IF ev.rtags = <<>> THEN <<"relay.damus.io">> ELSE Head(ev.rtags)[1]

\* relay_url.replace("wss://", "")
StripWss(url) == SelectSeq(url, LAMBDA part : part # "wss://")

\* generate_quote_picture: what it returns or raises, from what the website
\* does (site) and what the image host answers (upload).
\*   launch_fails    the browser does not start; the finally block then raises
\*   no_form         no input field or no submit button: return None
\*   fetch_error     the console shows "Error fetching Nostr event"
\*   no_canvas       no canvas or no PNG data: return None
\*   rendered        the canvas holds the image, which is then uploaded
Sites == {"launch_fails", "no_form", "fetch_error", "no_canvas", "rendered"}
Uploads == {"error"} \cup ImageUrls
GenerateQuotePicture(site, upload) ==
  CASE site = "launch_fails" -> [kind |-> "raise", url |-> None]
    [] site = "fetch_error" -> [kind |-> "not_found", url |-> None]
    [] site \in {"no_form", "no_canvas"} -> [kind |-> "none", url |-> None]
    [] site = "rendered" ->
         IF cfg.imgbb /\ upload \in ImageUrls
         THEN [kind |-> "url", url |-> upload]
         ELSE [kind |-> "none", url |-> None]

\* Mutant: every failure of the renderer is answered with the apology.
ReplyContentApologises(ev, res) ==
  IF res.kind = "url" THEN ImageReply(ev, res.url) ELSE ApologyReply(ev)

\* handle_event: what the inner try block and its except branch make of the
\* renderer's result: the reply text, or None when the call returns there.
ReplyContent(ev, res) ==
  CASE res.kind = "url" -> ImageReply(ev, res.url)
    [] res.kind = "not_found" -> ApologyReply(ev)
    [] OTHER -> None

\* The inner try block: the parent id, the relay, the renderer, the reply text.
Render ==
  /\ pc = "h_render"
  /\ LET ev == call.ev
         args == [text |-> call.parent_content, event_id |-> ParentIdOf(ev),
                  relay_url |-> StripWss(GetParentRelay(ev))]
     IN \E site \in Sites, upload \in Uploads, cleanup \in Outcomes :
          /\ site # "rendered" => upload = "error"
          /\ LET res == GenerateQuotePicture(site, upload)
                 reply_content == ReplyContent(ev, res)
                 done == [call EXCEPT !.did = Append(@, "render"),
                                      !.rendered = args,
                                      !.image = res.kind,
                                      !.reply_content = reply_content]
             IN IF reply_content = None
                THEN /\ call' = [done EXCEPT !.exit = Finally("return", cleanup)]
                     /\ AfterCall(Finally("return", cleanup))
                ELSE /\ cleanup = "ok"
                     /\ call' = done
                     /\ pc' = "h_open"
                     /\ batch' = batch
  /\ UNCHANGED <<now, cfg, world, processed, files, net>>

\* The builder, sign_event_builder, and open(event_file, "w")
SignAndOpen ==
  /\ pc = "h_open"
  /\ LET ev == call.ev
         event_id == ToBech32(ev.id)
     IN \E sign \in Outcomes, open \in Outcomes :
          IF sign = "raise" \/ open = "raise"
          THEN /\ sign = "raise" => open = "ok"
               /\ call' = [call EXCEPT !.exit = "raise"]
               /\ AfterCall("raise")
               /\ files' = files
          ELSE /\ call' = [call EXCEPT
                    !.signed = SignReply(ev, call.reply_content, now),
                    !.did = Append(@, "open")]
               /\ files' = WriteFile(event_id, <<>>)
               /\ pc' = "h_write"
               /\ batch' = batch
  /\ UNCHANGED <<now, cfg, world, processed, net>>

\* json.dump into the file and closing it; time passes meanwhile.
Dump ==
  /\ pc = "h_write"
  /\ LET event_id == ToBech32(call.ev.id)
     IN \E write \in Outcomes, elapsed \in 0..MaxElapsed :
          /\ now + elapsed <= MaxTime
          /\ now' = now + elapsed
          /\ IF write = "ok"
             THEN /\ files' = WriteFile(event_id, <<call.signed>>)
                  /\ call' = [call EXCEPT !.did = Append(@, "write")]
                  /\ pc' = "h_send"
                  /\ batch' = batch
             ELSE /\ files' = files
                  /\ call' = [call EXCEPT !.exit = "raise"]
                  /\ AfterCall("raise")
  /\ UNCHANGED <<cfg, world, processed, net>>

\* send_event_builder(builder): the builder is signed again and submitted.
\* It returns the relays that took the event and those that did not, or raises.
Send ==
  /\ pc = "h_send"
  /\ \E send \in {"ok", "failed", "raise"} :
       /\ net' = Append(net, SignReply(call.ev, call.reply_content, now))
       /\ IF send = "raise"
          THEN /\ call' = [call EXCEPT !.did = Append(@, "send"), !.exit = "raise"]
               /\ AfterCall("raise")
          ELSE /\ call' = [call EXCEPT !.did = Append(@, "send")]
               /\ pc' = "h_mark"
               /\ batch' = batch
  /\ UNCHANGED <<now, cfg, world, processed, files>>

\* "Mark this event as processed with current timestamp", then the finally block
Mark ==
  /\ pc = "h_mark"
  /\ \E cleanup \in Outcomes :
       /\ processed' = MarkProcessed(ToBech32(call.ev.id), now)
       /\ call' = [call EXCEPT !.did = Append(@, "mark"),
                               !.exit = Finally("return", cleanup)]
       /\ AfterCall(Finally("return", cleanup))
  /\ UNCHANGED <<now, cfg, world, files, net>>

\* ------------------------------------------------------- the process itself
\* The process is killed from outside, wherever it is.
Kill ==
  /\ pc \notin {"down", "exited"}
  /\ pc' = "down"
  /\ batch' = <<>>
  /\ call' = [call EXCEPT !.exit = IF @ = "running" THEN "crash" ELSE @]
  /\ UNCHANGED <<now, cfg, world, processed, files, net>>

\* The process is started again: the table is empty, the files are still there.
Restart ==
  /\ pc \in {"down", "exited"}
  /\ pc' = "start"
  /\ processed' = <<>>
  /\ batch' = <<>>
  /\ UNCHANGED <<now, cfg, world, files, net, call>>

Next ==
  \/ Start
  \/ Poll
  \/ Sleep
  \/ SleepAfterError
  \/ Dispatch
  \/ CheckSaved
  \/ Resolve
  \/ Render
  \/ SignAndOpen
  \/ Dump
  \/ Send
  \/ Mark
  \/ Kill
  \/ Restart

Spec == Init /\ [][Next]_vars

\* ------------------------------------------------------------------ claims
HandlerPcs == {"h_saved", "h_resolve", "h_render", "h_open", "h_write",
               "h_send", "h_mark"}
\* run_bot is in its loop (handle_event included).
LoopPcs == {"poll", "dispatch", "sleep_err"} \cup HandlerPcs
\* Where run_bot is once a call of handle_event has ended.
CallEnded == {"dispatch", "sleep_err", "exited"}

SentFor(id) == {i \in 1..Len(net) : net[i].reply_to = id}

\* C1: a call of handle_event for an event whose id is in the processed table
\* returns at once: nothing is looked up, rendered, written or sent, and the
\* table is unchanged.  While the process lives no record leaves the table.
C1_Idempotent ==
  [][ /\ ( /\ pc = "dispatch"
           /\ batch # <<>>
           /\ ToBech32(Head(batch).id) \in DOMAIN processed
           /\ pc' # "down" )
         => /\ UNCHANGED <<processed, files, net, now>>
            /\ call'.did = <<>>
            /\ call'.exit = "return"
            /\ pc' = "dispatch"
            /\ batch' = Tail(batch)
      /\ pc' # "start" => \A k \in DOMAIN processed : k \in DOMAIN processed'
    ]_vars

\* C1 witness: an event that was answered is handed to handle_event again and
\* skipped as already processed.
C1_Witness ==
  /\ call.exit = "return"
  /\ call.did = <<>>
  /\ call.ev.author # BotPubkey
  /\ call.ev \in Events
  /\ ToBech32(call.ev.id) \in DOMAIN processed
  /\ SentFor(call.ev.id) # {}

\* C2: whatever the polls, failures, kills and restarts, at most one reply to
\* a given mentioning event is ever submitted to the network.
C2_AtMostOneSend ==
  \A e \in Events : Cardinality(SentFor(e.id)) <= 1

\* C2 witness: the process died between the save and the send; after the
\* restart the event is handled again, marked, and nothing is submitted for it.
C2_Witness ==
  /\ call.did = <<"mark">>
  /\ call.exit = "return"
  /\ ToBech32(call.ev.id) \in DOMAIN files
  /\ Len(files[ToBech32(call.ev.id)]) = 1
  /\ ToBech32(call.ev.id) \in DOMAIN processed
  /\ SentFor(call.ev.id) = {}
  /\ Len(net) = 1

\* C3: a reply is submitted only after the signed reply was written to the
\* file named by the mentioning event's id: every submitted reply has its
\* file, holding a signed reply to the same event with the same text, and in
\* a call the write comes before the send.
C3_SaveBeforeSend ==
  /\ \A i \in 1..Len(net) :
       LET k == ToBech32(net[i].reply_to)
       IN /\ k \in DOMAIN files
          /\ Len(files[k]) = 1
          /\ files[k][1].reply_to = net[i].reply_to
          /\ files[k][1].content = net[i].content
  /\ \A j \in 1..Len(call.did) :
       call.did[j] = "send" => \E i \in 1..(j - 1) : call.did[i] = "write"

\* C3 witness: a reply has been saved and submitted.
C3_Witness ==
  /\ "send" \in Range(call.did)
  /\ SentFor(call.ev.id) # {}
  /\ Len(files[ToBech32(call.ev.id)]) = 1

\* The event handle_event is called for next has a reply file and no record.
SavedNotProcessed(k) == k \in DOMAIN files /\ k \notin DOMAIN processed

\* C4 (as amended): when handle_event, its client connected, finds a reply
\* file for an event id that is not in the processed table, it marks the id
\* processed with the current time and ends there: no lookup, no render, no
\* file written, nothing submitted.  A call that fails to connect before the
\* check changes nothing at all.
C4_ReplayMarksOnly ==
  [][ /\ ( /\ pc = "h_saved"
           /\ SavedNotProcessed(ToBech32(call.ev.id))
           /\ pc' # "down" )
         => /\ ToBech32(call.ev.id) \in DOMAIN processed'
            /\ processed'[ToBech32(call.ev.id)] = now
            /\ call'.did = <<"mark">>
            /\ pc' \in CallEnded
            /\ UNCHANGED <<files, net>>
      /\ ( /\ pc = "dispatch"
           /\ batch # <<>>
           /\ SavedNotProcessed(ToBech32(Head(batch).id))
           /\ pc' # "down" )
         => /\ pc' \in {"h_saved", "sleep_err"}
            /\ call'.did = <<>>
            /\ UNCHANGED <<processed, files, net>>
    ]_vars

\* C4 witness: a reply file without a record was found and the id marked.
C4_Witness ==
  /\ call.did = <<"mark">>
  /\ ToBech32(call.ev.id) \in DOMAIN files
  /\ ToBech32(call.ev.id) \in DOMAIN processed
  /\ processed[ToBech32(call.ev.id)] > StartTime
  /\ pc = "dispatch"

\* C4 as claimed: every call of handle_event that starts with a reply file
\* and no record for the event ends with the id marked processed.
C4_AsClaimed ==
  [][ ( /\ pc = "dispatch"
        /\ batch # <<>>
        /\ SavedNotProcessed(ToBech32(Head(batch).id))
        /\ pc' \in CallEnded )
      => ToBech32(Head(batch).id) \in DOMAIN processed' ]_vars

\* C5 as claimed: a call of handle_event that ends because the renderer or
\* the upload failed leaves the event marked processed.
C5_AsClaimed ==
  [][ ( /\ pc = "h_render"
        /\ pc' \in CallEnded
        /\ call'.image \in {"none", "raise"} )
      => ToBech32(call.ev.id) \in DOMAIN processed' ]_vars

C8_AsClaimed ==
  [][ ( /\ pc \in {"h_send", "h_mark"}
        /\ pc' \in CallEnded )
      => /\ ToBech32(call.ev.id) \in DOMAIN processed'
         /\ processed'[ToBech32(call.ev.id)] = now' ]_vars

\* C9: once run_bot is in its loop, no failure takes it out: an exception in
\* the fetch or in handle_event leads to the except branch, which sleeps the
\* fixed interval and starts the next pass.  Only a kill ends the loop.
C9_LoopSurvivesFailures ==
  [][ /\ pc \in LoopPcs => pc' \in LoopPcs \cup {"down"}
      /\ (pc \in LoopPcs /\ call'.exit = "raise" /\ call.exit # "raise")
           => pc' = "sleep_err"
      /\ (pc = "sleep_err" /\ pc' # "down")
           => pc' = "poll" /\ now' = now + 10 ]_vars

\* C9 witness: after handle_event raised, a later pass fetched a new batch.
C9_Witness ==
  /\ call.exit = "raise"
  /\ pc = "dispatch"
  /\ batch # <<>>
  /\ now >= StartTime + 10

\* C10: a call of handle_event for an event the bot wrote itself returns at
\* once, in every pass: nothing is looked up, rendered, saved or submitted,
\* and no reply to such an event is ever on file or on the network.
C10_NeverReplyToSelf ==
  [][ /\ ( /\ pc = "dispatch"
           /\ batch # <<>>
           /\ Head(batch).author = BotPubkey
           /\ pc' # "down" )
         => /\ UNCHANGED <<processed, files, net>>
            /\ call'.did = <<>>
            /\ call'.exit = "return"
            /\ pc' = "dispatch"
            /\ batch' = Tail(batch)
      /\ \A e \in Events : e.author = BotPubkey =>
            /\ SentFor(e.id)' = {}
            /\ ToBech32(e.id) \notin DOMAIN files'
    ]_vars

\* C10 witness: the bot's own event was fetched and skipped in a second pass.
C10_Witness ==
  /\ call.ev.author = BotPubkey
  /\ call.exit = "return"
  /\ call.did = <<>>
  /\ now >= StartTime + 10
  /\ pc = "dispatch"

\* C11 as claimed: an event without an e tag is resolved as the root whatever
\* its content: the resolution yields the event's own content, the call goes
\* on to the renderer, and the renderer is given the event's own id.
C11_AsClaimed ==
  [][ /\ ( /\ pc = "h_resolve"
           /\ call.ev.etags = <<>>
           /\ pc' # "down" )
         => /\ call'.parent_content = call.ev.content
            /\ pc' = "h_render"
      /\ ( /\ pc = "h_render"
           /\ call.ev.etags = <<>>
           /\ pc' # "down" )
         => call'.rendered.event_id = call.ev.id
    ]_vars

\* C12 as claimed: when an event with one e tag, whose note is found, is
\* answered with an image, the image is rendered for the e tag's id, the reply
\* is filed under the mentioning event's id and submitted as a reply to the
\* mentioning event, and its text is the mention, a blank line and the URL.
C12_AsClaimed ==
  ( /\ call.image = "url"
    /\ Len(call.ev.etags) = 1 )
  => /\ call.rendered.event_id = call.ev.etags[1]
     /\ \E u \in ImageUrls :
          call.reply_content = "npub1" \o call.ev.author \o "\n\n" \o u
     /\ "send" \in Range(call.did) =>
          /\ Len(files[ToBech32(call.ev.id)]) = 1
          /\ \E i \in 1..Len(net) : net[i].reply_to = call.ev.id

\* C12 (as amended): as claimed, except that the text is the requester's npub,
\* a space, a blank line and the URL ("<npub> \n\n<url>").  The reply written
\* to the file of the mentioning event and the reply submitted both carry that
\* text and reply to the mentioning event; no reply is ever filed under, or
\* submitted as a reply to, the quoted note.
C12_EndToEnd ==
  /\ ( /\ call.image = "url"
       /\ Len(call.ev.etags) = 1 )
     => /\ call.rendered.event_id = call.ev.etags[1]
        /\ call.rendered.text = ParentContent[call.ev.etags[1]]
        /\ \E u \in ImageUrls :
             LET text == "npub1" \o call.ev.author \o " \n\n" \o u
             IN /\ call.reply_content = text
                /\ "write" \in Range(call.did) =>
                     /\ Len(files[ToBech32(call.ev.id)]) = 1
                     /\ files[ToBech32(call.ev.id)][1].content = text
                     /\ files[ToBech32(call.ev.id)][1].reply_to = call.ev.id
                /\ "send" \in Range(call.did) =>
                     \E i \in 1..Len(net) : /\ net[i].reply_to = call.ev.id
                                            /\ net[i].content = text
  /\ \A i \in 1..Len(net) : net[i].reply_to \notin ParentIds
  /\ \A q \in ParentIds : ToBech32(q) \notin DOMAIN files

\* C12 witness: post_test.py's reply was answered with the image of the note
\* it replies to.
C12_Witness ==
  /\ call.ev = NoteTest
  /\ call.image = "url"
  /\ call.parent_content = ParentContent["p1"]
  /\ call.did = <<"lookup", "render", "open", "write", "send", "mark">>
  /\ net[Len(net)].reply_to = "e5"

\* get_user_relays has run in the last call.
RelaysDerived == call.users # NoRelays
NoDuplicates(seq) == \A i, j \in 1..Len(seq) : i # j => seq[i] # seq[j]
MarkerOf(tag) == IF Len(tag) > 1 THEN tag[2] ELSE "absent"
\* Some r tag of ev other than the i-th puts url in the write (read) set.
OtherTagWrites(ev, i, url) ==
  \E j \in 1..Len(ev.rtags) :
     j # i /\ ev.rtags[j][1] = url /\ MarkerOf(ev.rtags[j]) # "read"
OtherTagReads(ev, i, url) ==
  \E j \in 1..Len(ev.rtags) :
     j # i /\ ev.rtags[j][1] = url /\ MarkerOf(ev.rtags[j]) # "write"

\* C13: for every event handed to get_user_relays, with or without r tags,
\* the write list holds every WRITE_RELAYS entry, the read list every
\* READ_RELAYS entry, and neither list holds a URL twice.
C13_RelaySetComplete ==
  RelaysDerived =>
    /\ \A r \in Range(WRITE_RELAYS) : r \in Range(call.users.write)
    /\ \A r \in Range(READ_RELAYS) : r \in Range(call.users.read)
    /\ NoDuplicates(call.users.write)
    /\ NoDuplicates(call.users.read)

\* C13 witness: an event without r tags got exactly the two default lists.
C13_Witness ==
  /\ RelaysDerived
  /\ call.ev \in Events
  /\ call.ev.rtags = <<>>
  /\ Range(call.users.write) = Range(WRITE_RELAYS)
  /\ Range(call.users.read) = Range(READ_RELAYS)

\* C14: the per-event client reads from every relay of the requester's write
\* list and writes to every relay of the requester's read list; a relay tagged
\* "write" is read from, and is written to only if it is also a default read
\* relay or another r tag declares it for reading.
C14_RelayRoleInversion ==
  RelaysDerived =>
    /\ \A r \in Range(call.users.write) : r \in call.client.read
    /\ \A r \in Range(call.users.read) : r \in call.client.write
    /\ \A i \in 1..Len(call.ev.rtags) :
         LET url == call.ev.rtags[i][1]
         IN MarkerOf(call.ev.rtags[i]) = "write" =>
              /\ url \in call.client.read
              /\ url \in call.client.write =>
                   \/ url \in Range(READ_RELAYS)
                   \/ OtherTagReads(call.ev, i, url)

\* C14 witness: the requester's "write" relay is read from and not written to.
C14_Witness ==
  /\ call.ev = NoteReply
  /\ WssUrl("relay.bob.example") \in call.client.read
  /\ WssUrl("relay.bob.example") \notin call.client.write
  /\ WssUrl("inbox.bob.example") \in call.client.write

\* C18: an r tag marked "write" puts its URL in the write list and not, by
\* itself, in the read list; one marked "read" puts it in the read list and
\* not, by itself, in the write list; one with no marker or any other marker
\* puts it in both.
C18_MarkerRouting ==
  RelaysDerived =>
    \A i \in 1..Len(call.ev.rtags) :
      LET url == call.ev.rtags[i][1]
          marker == MarkerOf(call.ev.rtags[i])
          inWrite == url \in Range(call.users.write)
          inRead == url \in Range(call.users.read)
      IN CASE marker = "write" ->
                /\ inWrite
                /\ inRead => \/ url \in Range(READ_RELAYS)
                             \/ OtherTagReads(call.ev, i, url)
           [] marker = "read" ->
                /\ inRead
                /\ inWrite => \/ url \in Range(WRITE_RELAYS)
                              \/ OtherTagWrites(call.ev, i, url)
           [] OTHER -> inWrite /\ inRead

\* C18 witness: an event with a "write", a "read", an unmarked and a
\* "read+write" r tag had each routed.
C18_Witness ==
  /\ call.ev = NoteReply
  /\ WssUrl("relay.bob.example") \in Range(call.users.write)
  /\ WssUrl("relay.bob.example") \notin Range(call.users.read)
  /\ WssUrl("inbox.bob.example") \in Range(call.users.read)
  /\ WssUrl("inbox.bob.example") \notin Range(call.users.write)
  /\ WssUrl("nos.lol") \in Range(call.users.read)
  /\ WssUrl("both.bob.example") \in Range(call.users.write)
  /\ WssUrl("both.bob.example") \in Range(call.users.read)

\* C15 as claimed: for an event with e tags, the content that the parent
\* resolution returns and the id given to the renderer both belong to the
\* first e tag.
C15_AsClaimed ==
  ( /\ call.ev.etags # <<>>
    /\ "lookup" \in Range(call.did)
    /\ call.parent_content # None )
  => /\ call.parent_content = ParentContent[Head(call.ev.etags)]
     /\ call.rendered # NoRender =>
          call.rendered.event_id = Head(call.ev.etags)

\* C16 as claimed: within a pass no event leaves the batch without having
\* been handed to handle_event: the batch loses only its head, which is the
\* event of the call that just ended.
C16_AsClaimed ==
  [][ ( /\ batch' # batch
        /\ pc # "poll"
        /\ pc' \notin {"down", "start"} )
      => /\ batch' = Tail(batch)
         /\ call'.ev = Head(batch) ]_vars

\* C16 (as amended): the events of a batch are handed to handle_event one at
\* a time and in the order of the batch, for as long as no call raises: a
\* call that returns is followed by the next event, a call that raises ends
\* the pass and the rest of the batch is not handled in it.  The call in
\* progress is always the one for the head of the batch.
C16_DispatchInOrder ==
  [][ /\ ( /\ batch' # batch
           /\ pc # "poll"
           /\ pc' \notin {"down", "start"} )
         => /\ call'.ev = Head(batch)
            /\ \/ /\ call'.exit = "return"
                  /\ batch' = Tail(batch)
                  /\ pc' = "dispatch"
               \/ /\ call'.exit = "raise"
                  /\ batch' = <<>>
                  /\ pc' = "sleep_err"
      /\ ( /\ pc = "dispatch"
           /\ batch # <<>>
           /\ pc' # "down" )
         => call'.ev = Head(batch)
      /\ pc' \in HandlerPcs
         => /\ batch' # <<>>
            /\ call'.ev = Head(batch')
            /\ call'.exit = "running"
    ]_vars

\* C16 witness: the first event of a batch of two was handled and marked, and
\* the second is now at the renderer, in the same pass.
C16_Witness ==
  /\ pc = "h_render"
  /\ batch = <<NoteReply>>
  /\ call.ev = NoteReply
  /\ "note1e1" \in DOMAIN processed
  /\ processed["note1e1"] = now
  /\ now > StartTime + SLEEP_SECS

C19_AsClaimed ==
  [][ ( /\ pc = "start"
        /\ cfg.secret
        /\ pc' # "down" )
      => pc' = "poll" ]_vars

\* C20 as claimed: with the secret key or the image host's key missing, the
\* process never gets past its start: no poll, no event handled.
C20_AsClaimed ==
  (~cfg.secret \/ ~cfg.imgbb)
  => /\ pc \in {"start", "exited", "down"}
     /\ call = NoCall

\* C21 as claimed: every reply submitted to the network is the signed event
\* held in the reply file of the event it answers: same content, same
\* timestamp and, the id being the hash of the signed fields, same id.
C21_AsClaimed ==
  \A i \in 1..Len(net) :
    LET k == ToBech32(net[i].reply_to)
    IN /\ k \in DOMAIN files
       /\ files[k] = <<net[i]>>

====
